---------------------------- MODULE Spec2Model ----------------------------
(***************************************************************************)
(* Model of src/main.py of pacman-rl: the FloatObsEnv observation wrapper  *)
(* and the training script (save_dir resolution, the training loop,        *)
(* evaluation, checkpoint, metadata.json, Ray session copy, algo.stop).    *)
(*                                                                         *)
(* Spec     : one run of the script, for every SAVE_DIR / cwd / project    *)
(*            directory of the bounded input sets and every outcome of the *)
(*            library calls (a returned value or a raised exception).      *)
(* SpecEnv  : a FloatObsEnv instance under any sequence of reset / step.   *)
(***************************************************************************)
EXTENDS Integers, Sequences, FiniteSets, TLC

VARIABLES
    \* ---- the script (module level names of src/main.py) ----
    pc,               \* the statement the script is about to execute
    environ,          \* os.environ restricted to SAVE_DIR
    cwd,              \* os.getcwd(), a list of path components
    cwdGone,          \* os.getcwd() raises (the working directory was removed)
    project_dir,      \* dirname(abspath(__file__)), a list of path components
    save_dir,         \* the path the outputs go to
    warned,           \* the WARNING line was printed
    used,             \* the paths handed to makedirs / FileHandler / save / open / copytree
    i,                \* number of loop iterations completed
    result,           \* the last value returned by algo.train()
    eval_result,      \* the value returned by algo.evaluate()
    checkpoint_path,  \* the value returned by algo.save(save_dir)
    metadataFile,     \* what metadata.json holds once written
    metaState,        \* "absent" | "complete"
    trace,            \* the orchestration calls made so far, in order
    evalRuns,         \* evaluations carried out by the algorithm (in train and in evaluate)
    logFailures,      \* iterations whose metric logging raised (and was caught)
    copyOutcome,      \* "none" | "copied" | "nosrc" | "failed"
    abortCause,       \* the statement whose exception ended the run, or "none"
    \* ---- a FloatObsEnv instance ----
    raw,              \* the observation last produced by the wrapped ALE environment
    obs,              \* the observation last returned by reset() / step()
    lastCall          \* "init" | "reset" | "step"

runVars == <<pc, environ, cwd, cwdGone, project_dir, save_dir, warned, used, i,
             result, eval_result, checkpoint_path, metadataFile, metaState,
             trace, evalRuns, logFailures, copyOutcome, abortCause>>
envVars == <<raw, obs, lastCall>>
vars == <<runVars, envVars>>

-----------------------------------------------------------------------------
(* Bounds of the model *)

\* longest SAVE_DIR, in path components
MaxComps == 2
\* number of pixels of an observation
ObsLen == 2

-----------------------------------------------------------------------------
(* Paths: a path is [abs |-> starts with "/", comps |-> its components]      *)

Comps == {"app", "src", "out", "..", "."}

RECURSIVE SeqsUpTo(_)
SeqsUpTo(n) ==
    IF n = 0 THEN {<<>>}
    ELSE LET S == SeqsUpTo(n - 1)
         IN  S \cup {Append(s, c) : s \in {t \in S : Len(t) = n - 1}, c \in Comps}

Path(a, cs) == [abs |-> a, comps |-> cs]

\* the empty string ""
EmptyStr == Path(FALSE, <<>>)

IsPrefix(p, q) == Len(p) <= Len(q) /\ SubSeq(q, 1, Len(p)) = p

\* os.path.join(a, name) for a relative one-component name
join(p, name) == Path(p.abs, Append(p.comps, name))

\* posixpath.normpath: drop "." ; ".." pops a component, is dropped at the
\* root of an absolute path and kept at the front of a relative one
RECURSIVE NormComps(_, _, _)
NormComps(isabs, cs, acc) ==
    IF cs = <<>> THEN acc
    ELSE LET c == Head(cs)
             n == Len(acc)
         IN  IF c = "." THEN NormComps(isabs, Tail(cs), acc)
             ELSE IF c # ".." \/ (~isabs /\ n = 0) \/ (n > 0 /\ acc[n] = "..")
                  THEN NormComps(isabs, Tail(cs), Append(acc, c))
             ELSE IF n > 0 THEN NormComps(isabs, Tail(cs), SubSeq(acc, 1, n - 1))
             ELSE NormComps(isabs, Tail(cs), acc)

normpath(p) == Path(p.abs, NormComps(p.abs, p.comps, <<>>))

\* a variant of abspath that joins with the working directory but does not normalise
abspath_unnormalised(p) ==
    IF p.abs THEN p ELSE Path(TRUE, cwd \o p.comps)

\* posixpath.abspath: join a relative path with os.getcwd(), then normpath
abspath(p) ==
    IF p.abs THEN normpath(p) ELSE normpath(Path(TRUE, cwd \o p.comps))

\* abspath raises when the path is relative and os.getcwd() raises
abspathRaises(p) == ~p.abs /\ cwdGone

RECURSIVE CommonPrefix(_, _)
CommonPrefix(a, b) ==
    IF a = <<>> \/ b = <<>> \/ Head(a) # Head(b) THEN <<>>
    ELSE <<Head(a)>> \o CommonPrefix(Tail(a), Tail(b))

\* posixpath.commonpath of two absolute paths: "." components are dropped,
\* ".." is not resolved, the result is the longest common component prefix
commonpath(a, b) ==
    CommonPrefix(SelectSeq(a.comps, LAMBDA c : c # "."),
                 SelectSeq(b.comps, LAMBDA c : c # "."))


-----------------------------------------------------------------------------
(* float32: a value is [m, e] standing for m / 2^e, with m = 0 (zero) or     *)
(* 2^23 <= m < 2^24 (a normalised 24 bit significand)                       *)

\* significand bits of np.float32
MantissaBits == 24
\* the divisor of `/ 255.0`
Scale == 255
\* bounds of the wrapped environment's uint8 observation space
original_low == 0
original_high == 255

FZero == [m |-> 0, e |-> 0]
FOne == [m |-> 2^(MantissaBits - 1), e |-> MantissaBits - 1]

\* a <= b for float32 values >= 0
FLe(a, b) ==
    \/ a.m = 0
    \/ b.m # 0 /\ (a.e > b.e \/ (a.e = b.e /\ a.m <= b.m))

\* uint8 -> float32 (exact): shift the integer up to a 24 bit significand
RECURSIVE Normalise(_, _)
Normalise(m, e) ==
    IF m >= 2^(MantissaBits - 1) THEN [m |-> m, e |-> e] ELSE Normalise(2 * m, e + 1)

astype_float32(x) == IF x = 0 THEN FZero ELSE Normalise(x, 0)

\* binary long division: bring the quotient q (remainder r) up to 24 bits
RECURSIVE DivBits(_, _, _, _)
DivBits(q, r, e, d) ==
    IF q >= 2^(MantissaBits - 1) THEN [q |-> q, r |-> r, e |-> e]
    ELSE IF 2 * r >= d THEN DivBits(2 * q + 1, 2 * r - d, e + 1, d)
    ELSE DivBits(2 * q, 2 * r, e + 1, d)

\* IEEE-754 division of a float32 by the float32 integer d, round to nearest even
FDiv(f, d) ==
    IF f.m = 0 THEN FZero
    ELSE LET t == DivBits(f.m \div d, f.m % d, f.e, d)
             up == 2 * t.r > d \/ (2 * t.r = d /\ t.q % 2 = 1)
             q == IF up THEN t.q + 1 ELSE t.q
         IN  IF q = 2^MantissaBits THEN [m |-> 2^(MantissaBits - 1), e |-> t.e - 1]
             ELSE [m |-> q, e |-> t.e]

normalise_without_division(x) == astype_float32(x)

\* obs.astype(np.float32) / 255.0, for one pixel
normalise(x) == FDiv(astype_float32(x), Scale)

\* normalise over the uint8 range, evaluated once
Normalised == [x \in original_low..original_high |-> normalise(x)]

\* the element-wise operation on a frame
NormaliseFrame(f) == [p \in 1..ObsLen |-> Normalised[f[p]]]

\* lines 18-23: low, high and shape of the declared Box
observation_space ==
    [low |-> [p \in 1..ObsLen |-> Normalised[original_low]],
     high |-> [p \in 1..ObsLen |-> Normalised[original_high]],
     shape |-> ObsLen]

\* frames of the wrapped environment: the first pixel takes every uint8 value,
\* the others the two ends of the range
RawFrames ==
    {[p \in 1..ObsLen |-> IF p = 1 THEN x ELSE t[p]] :
        x \in original_low..original_high,
        t \in [1..ObsLen -> {original_low, original_high}]}

\* the actions of ALE/Pacman-v5 (Discrete(5))
Actions == 0..4

\* lines 26-28
Reset ==
    /\ \E f \in RawFrames :
          /\ raw' = f
          /\ obs' = NormaliseFrame(f)
    /\ lastCall' = "reset"
    /\ UNCHANGED runVars

\* lines 30-32, for any action of the action space: the new frame is the
\* wrapped environment's choice
Step ==
    /\ Actions # {}
    /\ \E f \in RawFrames :
          /\ raw' = f
          /\ obs' = NormaliseFrame(f)
    /\ lastCall' = "step"
    /\ UNCHANGED runVars

-----------------------------------------------------------------------------
(* Dictionaries: a dict is a function from the keys it holds *)

EmptyDict == [k \in {} |-> k]

\* d.get(k, default)
Get(d, k, default) == IF k \in DOMAIN d THEN d[k] ELSE default

\* d[k1][k2]...[kn] raises no KeyError
RECURSIVE HasKeys(_, _)
HasKeys(d, keys) ==
    keys = <<>> \/ (Head(keys) \in DOMAIN d /\ HasKeys(d[Head(keys)], Tail(keys)))

\* JSON null / Python None
None == "null"

-----------------------------------------------------------------------------
(* What the library calls may return *)

TrainEvaluation ==
    [env_runners |-> [episode_return_mean |-> "train_return",
                      episode_len_mean |-> "train_len"]]
TrainLearners ==
    [default_policy |-> [total_loss |-> "total", vf_loss |-> "vf", policy_loss |-> "policy"]]

\* results of algo.train(): complete, without 'evaluation', without 'learners'
TrainResults ==
    { [evaluation |-> TrainEvaluation, learners |-> TrainLearners],
      [learners |-> TrainLearners],
      [evaluation |-> TrainEvaluation] }

\* results of algo.evaluate(): complete, without 'evaluation', 'evaluation'
\* without 'env_runners', 'env_runners' without the two means
EvalResults ==
    { [evaluation |-> [env_runners |-> [episode_return_mean |-> "eval_return",
                                        episode_len_mean |-> "eval_len"]]],
      EmptyDict,
      [evaluation |-> EmptyDict],
      [evaluation |-> [env_runners |-> EmptyDict]] }

\* values algo.save(save_dir) may return
CheckpointReturns == {"checkpoint_a", "checkpoint_b"}

-----------------------------------------------------------------------------
(* Program constants *)

\* for i in range(1)
NumIters == 1
\* config.evaluation(evaluation_interval=1)
evaluation_interval == 1

-----------------------------------------------------------------------------
(* The script *)

\* order with the checkpoint taken before the evaluation
ScriptOrder_save_before_evaluate ==
    <<"resolve", "logging", "loop", "save", "evaluate", "metadata", "copy", "stop", "done">>

\* order with the checkpoint taken before the training loop
ScriptOrder_save_before_loop ==
    <<"resolve", "logging", "save", "loop", "evaluate", "metadata", "copy", "stop", "done">>

\* the statements of the script in program order
ScriptOrder ==
    <<"resolve", "logging", "loop", "evaluate", "save", "metadata", "copy", "stop", "done">>

\* the statement that follows s once s has returned
After(s) ==
    LET k == CHOOSE j \in 1..Len(ScriptOrder) : ScriptOrder[j] = s
    IN  ScriptOrder[k + 1]

default_out == join(Path(TRUE, project_dir), "out")

\* os.environ.get("SAVE_DIR")
HasEnvSave == "SAVE_DIR" \in DOMAIN environ
\* `if env_save:` None and "" are false
EnvSaveTruthy == HasEnvSave /\ environ["SAVE_DIR"] # EmptyStr

InitialSaveDir_always_default == default_out

\* lines 86-90
InitialSaveDir == IF EnvSaveTruthy THEN environ["SAVE_DIR"] ELSE default_out

\* lines 93-97: common is None when abspath/commonpath raise
OutsideProject(d) ==
    abspathRaises(d) \/ commonpath(Path(TRUE, project_dir), abspath(d)) # project_dir

TryExcept_propagates(raised) == IF raised THEN "propagated" ELSE "ok"

\* try: ... except Exception: logger.exception(...)
TryExcept(raised) == IF raised THEN "caught" ELSE "ok"

\* the five lookups of lines 122-126
MetricKeys ==
    { <<"evaluation", "env_runners", "episode_return_mean">>,
      <<"evaluation", "env_runners", "episode_len_mean">>,
      <<"learners", "default_policy", "total_loss">>,
      <<"learners", "default_policy", "vf_loss">>,
      <<"learners", "default_policy", "policy_loss">> }

LogMetricsRaises(r) == \E keys \in MetricKeys : ~HasKeys(r, keys)

EvaluatesInTrain_never(iteration) == FALSE

\* Algorithm.train() evaluates when the iteration is a multiple of evaluation_interval
EvaluatesInTrain(iteration) ==
    evaluation_interval > 0 /\ iteration % evaluation_interval = 0

Summary(r) ==
    [episode_return_mean |->
        Get(Get(Get(r, "evaluation", EmptyDict), "env_runners", EmptyDict),
            "episode_return_mean", None),
     episode_len_mean |->
        Get(Get(Get(r, "evaluation", EmptyDict), "env_runners", EmptyDict),
            "episode_len_mean", None)]

BuildMetadata_from_train(cp, er) ==
    [checkpoint_path |-> cp, eval_result_summary |-> Summary(result), timestamp |-> "utcnow"]

\* lines 140-147
BuildMetadata(cp, er) ==
    [checkpoint_path |-> cp, eval_result_summary |-> Summary(er), timestamp |-> "utcnow"]

NoMetadata ==
    [checkpoint_path |-> "unset",
     eval_result_summary |-> [episode_return_mean |-> "unset", episode_len_mean |-> "unset"],
     timestamp |-> "unset"]

Abort(cause) == pc' = "aborted" /\ abortCause' = cause
Advance(s) == pc' = After(s) /\ abortCause' = abortCause

\* lines 81-100
ResolveSaveDir ==
    /\ pc = "resolve"
    /\ LET outside == OutsideProject(InitialSaveDir)
       IN  /\ save_dir' = IF outside THEN default_out ELSE InitialSaveDir
           /\ warned' = outside
    /\ Advance("resolve")
    /\ UNCHANGED <<environ, cwd, cwdGone, project_dir, used, i, result, eval_result,
                   checkpoint_path, metadataFile, metaState, trace, evalRuns,
                   logFailures, copyOutcome, envVars>>

\* lines 102-116: os.makedirs, then logging.FileHandler(save_dir/train.log)
SetupLogging ==
    /\ pc = "logging"
    /\ \E outcome \in {"ok", "makedirs_raises", "filehandler_raises"} :
          /\ used' = used \cup
                (IF outcome = "makedirs_raises" THEN {save_dir}
                 ELSE {save_dir, join(save_dir, "train.log")})
          /\ IF outcome = "ok" THEN Advance("logging") ELSE Abort("logging")
    /\ UNCHANGED <<environ, cwd, cwdGone, project_dir, save_dir, warned, i, result,
                   eval_result, checkpoint_path, metadataFile, metaState, trace,
                   evalRuns, logFailures, copyOutcome, envVars>>

\* lines 118-128: one pass of the loop body
TrainIteration ==
    /\ pc = "loop"
    /\ i < NumIters
    /\ trace' = Append(trace, "train")
    /\ \/ /\ Abort("train")
          /\ UNCHANGED <<i, result, evalRuns, logFailures>>
       \/ \E r \in TrainResults :
             /\ result' = r
             /\ evalRuns' = evalRuns + (IF EvaluatesInTrain(i + 1) THEN 1 ELSE 0)
             /\ LET handled == TryExcept(LogMetricsRaises(r))
                IN  /\ logFailures' = logFailures + (IF handled = "ok" THEN 0 ELSE 1)
                    /\ IF handled = "propagated" THEN Abort("log") /\ i' = i
                       ELSE /\ i' = i + 1
                            /\ IF i + 1 < NumIters
                               THEN pc' = "loop" /\ abortCause' = abortCause
                               ELSE Advance("loop")
    /\ UNCHANGED <<environ, cwd, cwdGone, project_dir, save_dir, warned, used,
                   eval_result, checkpoint_path, metadataFile, metaState,
                   copyOutcome, envVars>>

\* line 133
Evaluate ==
    /\ pc = "evaluate"
    /\ trace' = Append(trace, "evaluate")
    /\ \/ Abort("evaluate") /\ UNCHANGED <<eval_result, evalRuns>>
       \/ \E r \in EvalResults :
             /\ eval_result' = r
             /\ evalRuns' = evalRuns + 1
             /\ Advance("evaluate")
    /\ UNCHANGED <<environ, cwd, cwdGone, project_dir, save_dir, warned, used, i, result,
                   checkpoint_path, metadataFile, metaState, logFailures,
                   copyOutcome, envVars>>

\* lines 136-137
SaveCheckpoint ==
    /\ pc = "save"
    /\ trace' = Append(trace, "save")
    /\ used' = used \cup {save_dir}
    /\ \/ Abort("save") /\ UNCHANGED checkpoint_path
       \/ \E cp \in CheckpointReturns :
             /\ checkpoint_path' = cp
             /\ Advance("save")
    /\ UNCHANGED <<environ, cwd, cwdGone, project_dir, save_dir, warned, i, result,
                   eval_result, metadataFile, metaState, evalRuns, logFailures,
                   copyOutcome, envVars>>

\* lines 140-149
WriteMetadata ==
    /\ pc = "metadata"
    /\ trace' = Append(trace, "metadata")
    /\ used' = used \cup {join(save_dir, "metadata.json")}
    /\ \/ Abort("metadata") /\ UNCHANGED <<metadataFile, metaState>>
       \/ /\ metadataFile' = BuildMetadata(checkpoint_path, eval_result)
          /\ metaState' = "complete"
          /\ Advance("metadata")
    /\ UNCHANGED <<environ, cwd, cwdGone, project_dir, save_dir, warned, i, result,
                   eval_result, checkpoint_path, evalRuns, logFailures,
                   copyOutcome, envVars>>

\* lines 152-161
CopyRaySession ==
    /\ pc = "copy"
    /\ \E outcome \in {"copied", "nosrc", "failed"} :
          /\ copyOutcome' = outcome
          /\ used' = IF outcome = "nosrc" THEN used
                     ELSE used \cup {join(save_dir, "ray_session_latest")}
          /\ IF TryExcept(outcome = "failed") = "propagated"
             THEN Abort("copy") ELSE Advance("copy")
    /\ UNCHANGED <<environ, cwd, cwdGone, project_dir, save_dir, warned, i, result,
                   eval_result, checkpoint_path, metadataFile, metaState, trace,
                   evalRuns, logFailures, envVars>>

\* line 166
Stop ==
    /\ pc = "stop"
    /\ trace' = Append(trace, "stop")
    /\ \/ Abort("stop")
       \/ Advance("stop")
    /\ UNCHANGED <<environ, cwd, cwdGone, project_dir, save_dir, warned, used, i, result,
                   eval_result, checkpoint_path, metadataFile, metaState, evalRuns,
                   logFailures, copyOutcome, envVars>>

\* the values SAVE_DIR may hold
SaveDirValues == {Path(a, cs) : a \in BOOLEAN, cs \in SeqsUpTo(MaxComps)}
\* where the script may live and be started from
ProjectDirs == {<<"app">>, <<"app", "src">>}
WorkingDirs == {<<>>, <<"app">>, <<"app", "src">>}

EnvIdle ==
    /\ raw = [p \in 1..ObsLen |-> original_low]
    /\ obs = [p \in 1..ObsLen |-> FZero]
    /\ lastCall = "init"

Init ==
    /\ pc = "resolve"
    /\ environ \in {EmptyDict} \cup {[SAVE_DIR |-> p] : p \in SaveDirValues}
    /\ cwd \in WorkingDirs
    /\ cwdGone \in BOOLEAN
    /\ project_dir \in ProjectDirs
    /\ save_dir = EmptyStr
    /\ warned = FALSE
    /\ used = {}
    /\ i = 0
    /\ result = EmptyDict
    /\ eval_result = EmptyDict
    /\ checkpoint_path = "unset"
    /\ metadataFile = NoMetadata
    /\ metaState = "absent"
    /\ trace = <<>>
    /\ evalRuns = 0
    /\ logFailures = 0
    /\ copyOutcome = "none"
    /\ abortCause = "none"
    /\ EnvIdle

Next ==
    \/ ResolveSaveDir
    \/ SetupLogging
    \/ TrainIteration
    \/ Evaluate
    \/ SaveCheckpoint
    \/ WriteMetadata
    \/ CopyRaySession
    \/ Stop

Spec == Init /\ [][Next]_vars

RunIdle ==
    /\ pc = "done"
    /\ environ = EmptyDict
    /\ cwd = <<>>
    /\ cwdGone = FALSE
    /\ project_dir = <<"app">>
    /\ save_dir = EmptyStr
    /\ warned = FALSE
    /\ used = {}
    /\ i = 0
    /\ result = EmptyDict
    /\ eval_result = EmptyDict
    /\ checkpoint_path = "unset"
    /\ metadataFile = NoMetadata
    /\ metaState = "absent"
    /\ trace = <<>>
    /\ evalRuns = 0
    /\ logFailures = 0
    /\ copyOutcome = "none"
    /\ abortCause = "none"

\* a FloatObsEnv right after __init__
InitEnv == RunIdle /\ EnvIdle

NextEnv == Reset \/ Step

SpecEnv == InitEnv /\ [][NextEnv]_vars

-----------------------------------------------------------------------------
(* Properties *)

Count(seq, x) == Cardinality({k \in 1..Len(seq) : seq[k] = x})

\* the calls of a complete run, in the order the claims give
ExpectedTrace ==
    [k \in 1..NumIters |-> "train"] \o <<"evaluate", "save", "metadata", "stop">>

\* where a path leads from the working directory, component by component
\* (a file system without symbolic links)
RECURSIVE Walk(_, _)
Walk(at, cs) ==
    IF cs = <<>> THEN at
    ELSE IF Head(cs) = "." THEN Walk(at, Tail(cs))
    ELSE IF Head(cs) = ".."
         THEN Walk(IF at = <<>> THEN at ELSE SubSeq(at, 1, Len(at) - 1), Tail(cs))
    ELSE Walk(Append(at, Head(cs)), Tail(cs))

Locate(p) == Walk(IF p.abs THEN <<>> ELSE cwd, p.comps)

\* p names the project directory or a place beneath it
Contained(p) == (p.abs \/ ~cwdGone) /\ IsPrefix(project_dir, Locate(p))

SaveDirGiven == "SAVE_DIR" \in DOMAIN environ /\ environ["SAVE_DIR"] # Path(FALSE, <<>>)

\* C1: the orchestration calls are made in the fixed order train (NumIters
\* times), evaluate, save, metadata, stop: the calls made so far are always a
\* prefix of that sequence, a call that raised is the last one made, and a run
\* that reaches its end has made every call, evaluate / save / metadata
\* exactly once each.
C1_FixedOrder ==
    /\ IsPrefix(trace, ExpectedTrace)
    /\ abortCause \in {"train", "evaluate", "save", "metadata", "stop"}
          => trace # <<>> /\ trace[Len(trace)] = abortCause
    /\ pc = "done" =>
          /\ trace = ExpectedTrace
          /\ Count(trace, "evaluate") = 1
          /\ Count(trace, "save") = 1
          /\ Count(trace, "metadata") = 1

C1_Witness == pc = "done" /\ Len(trace) = NumIters + 4 /\ trace[Len(trace)] = "stop"

\* the float32 value f is the one nearest to x / Scale (within half a unit in
\* the last place), computed on the halves of the significand
NearestTo(f, x) ==
    IF x = 0 THEN f.m = 0
    ELSE /\ f.m >= 2^(MantissaBits - 1)
         /\ f.m < 2^MantissaBits
         /\ f.e >= 12
         /\ f.e <= 31
         /\ LET mh == f.m \div 4096
                ml == f.m % 4096
                A == x * 2^(f.e - 12) - Scale * mh
                err == 4096 * A - Scale * ml
            IN  /\ A >= 0
                /\ A <= Scale + 1
                /\ 2 * err <= Scale
                /\ 2 * err >= -Scale

\* C2: after any sequence of reset and step calls, every pixel of the returned
\* observation is the float32 nearest to raw/255 of the raw uint8 pixel, lies
\* in [0, 1] and within the declared observation_space, whose low is 0/255,
\* whose high is 255/255 and whose shape is that of the raw frame.
C2_ObservationsNormalised ==
    /\ observation_space.shape = Len(raw)
    /\ \A p \in 1..ObsLen :
          /\ observation_space.low[p] = FZero
          /\ observation_space.high[p] = FOne
    /\ lastCall # "init" =>
          /\ DOMAIN obs = DOMAIN raw
          /\ \A p \in DOMAIN obs :
                /\ raw[p] \in 0..255
                /\ NearestTo(obs[p], raw[p])
                /\ FLe(FZero, obs[p])
                /\ FLe(obs[p], FOne)
                /\ FLe(observation_space.low[p], obs[p])
                /\ FLe(obs[p], observation_space.high[p])

C2_Witness ==
    /\ lastCall = "step"
    /\ raw[1] = 1
    /\ obs[1].m # 0
    /\ obs[1] # FOne
    /\ raw[ObsLen] = 255
    /\ obs[ObsLen] = FOne

\* C3 as stated: a checkpoint save recurs between training iterations, so a
\* complete run has a save that is followed by a training iteration.
C3_PeriodicCheckpoint ==
    pc = "done" =>
        \E j, k \in 1..Len(trace) : j < k /\ trace[j] = "save" /\ trace[k] = "train"

\* C3 amended: the checkpoint is saved once per run, after the last training
\* iteration and the evaluation: no save precedes a training iteration, none
\* is made while iterations remain, and a run past the save has made one.
C3_SingleCheckpointAfterTraining ==
    /\ \A j, k \in 1..Len(trace) : trace[j] = "save" /\ trace[k] = "train" => k < j
    /\ Count(trace, "save") <= 1
    /\ i < NumIters => Count(trace, "save") = 0
    /\ pc \in {"metadata", "copy", "stop", "done"} =>
          /\ Count(trace, "save") = 1
          /\ Count(trace, "train") = NumIters
          /\ Count(trace, "evaluate") = 1

C3_Witness == pc = "done" /\ Count(trace, "save") = 1 /\ checkpoint_path # "unset"

\* C4 as stated: algo.train() is invoked more than once in a run, and the
\* evaluations number the training iterations plus one.
C4_RepeatedIterations ==
    pc = "done" =>
        /\ Count(trace, "train") > 1
        /\ evalRuns = Count(trace, "train") + 1

\* C4 amended: algo.train() is invoked exactly once in a run; an evaluation is
\* performed with every completed training iteration and one more by the
\* explicit algo.evaluate(), so a complete run has made two evaluations, the
\* number of training iterations plus one.
C4_SingleIterationTwoEvaluations ==
    /\ Count(trace, "train") <= 1
    /\ evalRuns = i + (IF pc \in {"save", "metadata", "copy", "stop", "done"}
                          \/ abortCause \in {"save", "metadata", "stop"}
                       THEN 1 ELSE 0)
    /\ pc = "done" =>
          /\ Count(trace, "train") = 1
          /\ i = 1
          /\ evalRuns = Count(trace, "train") + 1
          /\ evalRuns = 2

C4_Witness == pc = "done" /\ evalRuns = 2 /\ Count(trace, "train") = 1

\* C5: for every SAVE_DIR, once resolved, save_dir and every path handed to
\* makedirs, the log file handler, algo.save, open and copytree name the
\* project directory or a place beneath it; when a SAVE_DIR was given that
\* leads outside (or cannot be resolved), save_dir is <project_dir>/out and the
\* warning was printed.
C5_SaveDirContained ==
    pc # "resolve" =>
        /\ Contained(save_dir)
        /\ \A p \in used : Contained(p)
        /\ (SaveDirGiven /\ ~Contained(environ["SAVE_DIR"]))
              => save_dir = Path(TRUE, Append(project_dir, "out")) /\ warned

C5_Witness ==
    /\ pc = "done"
    /\ SaveDirGiven
    /\ ~Contained(environ["SAVE_DIR"])
    /\ warned
    /\ Cardinality(used) = 4

\* C6: a SAVE_DIR that is set, non-empty and leads inside the project tree is
\* used unchanged and without warning; with SAVE_DIR unset or empty save_dir is
\* <project_dir>/out; save_dir is never anything but one of these two.
C6_SaveDirPreferred ==
    pc # "resolve" =>
        /\ (SaveDirGiven /\ Contained(environ["SAVE_DIR"]))
              => save_dir = environ["SAVE_DIR"] /\ ~warned
        /\ ~SaveDirGiven => save_dir = Path(TRUE, Append(project_dir, "out"))
        /\ \/ save_dir = Path(TRUE, Append(project_dir, "out"))
           \/ SaveDirGiven /\ save_dir = environ["SAVE_DIR"]

C6_Witness ==
    /\ pc = "done"
    /\ SaveDirGiven
    /\ save_dir = environ["SAVE_DIR"]
    /\ ~save_dir.abs
    /\ save_dir # normpath(save_dir)
    /\ ~warned

\* C7: an exception while logging the metrics of an iteration or while copying
\* the Ray session never ends the run: the run is only ever ended by a raising
\* train / evaluate / save / metadata / stop (or logging set-up) call, after a
\* logging failure the script stands at a later statement which it can execute,
\* after a copy failure it goes on to algo.stop(), and a run that reaches its
\* end has made every call.
C7_LoggingFailuresDoNotAbort ==
    /\ abortCause \notin {"log", "copy"}
    /\ logFailures > 0 =>
          \/ pc \in {"loop", "evaluate", "save", "metadata", "copy", "stop", "done"}
          \/ pc = "aborted" /\ abortCause \in {"train", "evaluate", "save", "metadata", "stop"}
    /\ copyOutcome = "failed" =>
          \/ pc \in {"stop", "done"}
          \/ pc = "aborted" /\ abortCause = "stop"
    /\ pc \notin {"done", "aborted"} => ENABLED Next
    /\ pc = "done" => trace = ExpectedTrace

C7_Witness ==
    /\ pc = "done"
    /\ logFailures > 0
    /\ copyOutcome = "failed"
    /\ Count(trace, "stop") = 1
    /\ metaState = "complete"

MeanKeys(name) == <<"evaluation", "env_runners", name>>

\* C8: metadata.json is complete only after algo.save returned: its
\* checkpoint_path is the value algo.save returned, its two means are those of
\* the algo.evaluate() result, null when that result lacks them, and never
\* those of a training result; a run whose algo.save raised wrote none.
C8_MetadataConsistent ==
    /\ metaState = "complete" =>
          /\ \E j, k \in 1..Len(trace) : j < k /\ trace[j] = "save" /\ trace[k] = "metadata"
          /\ checkpoint_path \in CheckpointReturns
          /\ metadataFile.checkpoint_path = checkpoint_path
          /\ \A name \in {"episode_return_mean", "episode_len_mean"} :
                /\ metadataFile.eval_result_summary[name] =
                      IF HasKeys(eval_result, MeanKeys(name))
                      THEN eval_result["evaluation"]["env_runners"][name]
                      ELSE "null"
                /\ metadataFile.eval_result_summary[name] \notin {"train_return", "train_len"}
    /\ metaState # "complete" => metadataFile = NoMetadata
    /\ abortCause = "save" => metaState = "absent"

C8_Witness ==
    /\ pc = "done"
    /\ metaState = "complete"
    /\ HasKeys(result, MeanKeys("episode_return_mean"))
    /\ ~HasKeys(eval_result, MeanKeys("episode_return_mean"))
    /\ metadataFile.eval_result_summary["episode_return_mean"] = "null"
    /\ metadataFile.checkpoint_path = "checkpoint_b"

=============================================================================
